---- MODULE Spec2Model ----
(***************************************************************************)
(* Model of PullRequestsTreeDataProvider (src/view/prsTreeDataProvider.ts):*)
(* root resolution, the tracked generation of top-level nodes             *)
(* (_childrenDisposables), the memoized environment probe (isVSO) and the  *)
(* asynchronous root passes of getChildren.                               *)
(***************************************************************************)
EXTENDS Integers, Sequences, FiniteSets, TLC

VARIABLES
    prManager,            \* this._prManager: None until initialize, then Some("manager")
    initialized,          \* this._initialized
    state,                \* PullRequestManager.state (lives in the manager, attached or not)
    folderManagers,       \* PullRequestManager.folderManagers: per folder its remotes
    isVSOCache,           \* this._isVSO: None or Some(boolean)
    childrenDisposables,  \* this._childrenDisposables
    disposeCount,         \* per created top-level node: number of dispose() calls on it
    passes,               \* root passes suspended at `await this.isVSO()`
    nextPass,             \* identity of the next root pass that reaches the await
    overlapped,           \* history: some root pass reached the await while another was suspended there
    lastDone,             \* the root pass that most recently returned real subtree roots (0: none yet)
    ret,                  \* the most recent operation: a settled getChildren call and its result,
                          \* or another operation, how it ended and the notifications it fired
    initPending,          \* initialize() is suspended at `await this.initializeCategories()`
    subscriptions,        \* live listeners of the provider: on the manager's onDidChangeState,
                          \* and on each folder manager's onDidChangeRepositories
    probes,               \* number of calls of vscode.env.asExternalUri so far
    fetchNextPage         \* the category nodes whose fetchNextPage flag is true

lifecycleVars == <<initPending, subscriptions>>

vars == <<prManager, initialized, state, folderManagers, isVSOCache,
          childrenDisposables, disposeCount, passes, nextPass, overlapped, lastDone, ret,
          initPending, subscriptions, probes, fetchNextPage>>

----------------------------------------------------------------------------
\* Bounds of the model.
MaxFolders == 2      \* most folder managers of the manager
MaxPasses == 2       \* most root passes that reach the real-subtree branches

\* Optional values (T | undefined).
None == <<>>
Some(v) == <<v>>
\* JavaScript truthiness of an optional array: undefined is falsy, every array
\* (the empty one too) is truthy.
Truthy(opt) == opt # None

\* Lengths of the remote lists a folder manager reports (only length > 0 is read).
RemoteCounts == {0, 1}
PRManagerState == {"Initializing", "NeedsAuthentication", "RepositoriesLoaded"}
\* vscode.workspace.workspaceFolders: undefined when no workspace is opened, or
\* the list of the open folders (its length; a workspace can hold no folder).
WorkspaceFoldersValues == {None} \cup {Some(n) : n \in 0..2}
\* The githubPullRequests.remotes setting: undefined, or a list (its length).
RemotesSettingValues == {None, Some(0), Some(2)}
\* Authorities a probe can resolve the callback URI to: the local one, and one of
\* a hosted workspace.
Authorities == {"vscode.github-authentication", "online.workspaces-dev.github.com"}
\* The categories of one folder, in the order the builder returns them.
Categories == <<"Local Pull Request Branches", "All">>

----------------------------------------------------------------------------
\* Nodes.
NoNode == [kind |-> "undefined"]
PRCategoryActionNode(t) == [kind |-> "PRCategoryActionNode", type |-> t]
WorkspaceFolderNode(g, i, vso) == [kind |-> "WorkspaceFolderNode", gen |-> g, fm |-> i, isVso |-> vso]
CategoryTreeNode(g, i, c, vso) == [kind |-> "CategoryTreeNode", gen |-> g, fm |-> i, idx |-> c, isVso |-> vso]
PRNode(n) == [kind |-> "PRNode", gen |-> n.gen, fm |-> n.fm, idx |-> n.idx]

\* WorkspaceFolderNode.getCategoryTreeNodes(folderManager, telemetry, isVSO, view)
getCategoryTreeNodes(g, i, vso) == [c \in DOMAIN Categories |-> CategoryTreeNode(g, i, Categories[c], vso)]

\* element.getChildren() of a concrete node
NodeGetChildren(n) ==
    IF n.kind = "WorkspaceFolderNode" THEN getCategoryTreeNodes(n.gen, n.fm, n.isVso)
    ELSE IF n.kind = "CategoryTreeNode" THEN <<PRNode(n)>>
    ELSE <<>>

Range(s) == {s[i] : i \in DOMAIN s}

\* String.prototype.endsWith
EndsWith(s, suffix) ==
    /\ Len(s) >= Len(suffix)
    /\ SubSeq(s, Len(s) - Len(suffix) + 1, Len(s)) = suffix

\* The classification isVSO() computes from the probed authority.
AuthorityIsVSO(a) ==
    \/ EndsWith(a, "workspaces.github.com")
    \/ EndsWith(a, "workspaces-dev.github.com")
    \/ EndsWith(a, "workspaces-ppe.github.com")

----------------------------------------------------------------------------
\* The gates of getChildren, evaluated in order.
HasGitHubRemotes ==
    Cardinality({i \in DOMAIN folderManagers : folderManagers[i].githubRemotes > 0}) # 0

\* The repository-remotes test requiring a remote of every folder manager.
HasRepositoryRemotes_All ==
    Cardinality({i \in DOMAIN folderManagers : folderManagers[i].remotes = 0}) = 0

HasRepositoryRemotes ==
    Cardinality({i \in DOMAIN folderManagers : folderManagers[i].remotes > 0}) # 0

\* needsRemotes with the allow-list tested before the authentication state.
needsRemotes_SettingFirst(remotesSetting) ==
    IF Truthy(remotesSetting)
    THEN <<PRCategoryActionNode("NoMatchingRemotes"), PRCategoryActionNode("ConfigureRemotes")>>
    ELSE IF state = "NeedsAuthentication" THEN <<>>
    ELSE <<PRCategoryActionNode("NoRemotes")>>

\* needsRemotes with the two prompts of the allow-list case in the other order.
needsRemotes_Reordered(remotesSetting) ==
    IF state = "NeedsAuthentication" THEN <<>>
    ELSE IF Truthy(remotesSetting)
         THEN <<PRCategoryActionNode("ConfigureRemotes"), PRCategoryActionNode("NoMatchingRemotes")>>
         ELSE <<PRCategoryActionNode("NoRemotes")>>

needsRemotes(remotesSetting) ==
    IF state = "NeedsAuthentication" THEN <<>>
    ELSE IF Truthy(remotesSetting)
         THEN <<PRCategoryActionNode("NoMatchingRemotes"), PRCategoryActionNode("ConfigureRemotes")>>
         ELSE <<PRCategoryActionNode("NoRemotes")>>

\* The no-manager branch with its test inverted.
NoManagerResult_Inverted(workspaceFolders) ==
    IF Truthy(workspaceFolders)
    THEN <<PRCategoryActionNode("NoOpenFolder")>>
    ELSE <<PRCategoryActionNode("NoGitRepositories")>>

NoManagerResult(workspaceFolders) ==
    IF ~Truthy(workspaceFolders)
    THEN <<PRCategoryActionNode("NoOpenFolder")>>
    ELSE <<PRCategoryActionNode("NoGitRepositories")>>

InitializingResult == <<PRCategoryActionNode("Initializing")>>

EmptyResult == <<PRCategoryActionNode("Empty")>>

\* The gates with the remotes test ahead of the Initializing test.
Gate_RemotesFirst ==
    IF prManager = None THEN "noManager"
    ELSE IF ~HasGitHubRemotes THEN "needsRemotes"
    ELSE IF state = "Initializing" THEN "initializing"
    ELSE "none"

\* Which gate a call stops at, "none" when it passes all three.
Gate ==
    IF prManager = None THEN "noManager"
    ELSE IF state = "Initializing" THEN "initializing"
    ELSE IF ~HasGitHubRemotes THEN "needsRemotes"
    ELSE "none"

GateResult(workspaceFolders, remotesSetting) ==
    CASE Gate = "noManager" -> NoManagerResult(workspaceFolders)
      [] Gate = "initializing" -> InitializingResult
      [] OTHER -> needsRemotes(remotesSetting)

\* The element branch without the repository-remotes test.
ElementResult_NoRecheck(element) == NodeGetChildren(element)

\* getChildren(element) for a defined element, past the gates.
ElementResult(element) ==
    IF ~HasRepositoryRemotes THEN EmptyResult ELSE NodeGetChildren(element)

\* The root branch wrapping the folder of a single-folder workspace too.
RootResult_AlwaysWrapped(p, vso) ==
    [i \in DOMAIN folderManagers |-> WorkspaceFolderNode(p.id, i, vso)]

\* The roots a root pass builds once isVSO() has resolved to vso.
RootResult(p, vso) ==
    IF p.single
    THEN getCategoryTreeNodes(p.id, 1, vso)
    ELSE [i \in DOMAIN folderManagers |-> WorkspaceFolderNode(p.id, i, vso)]

\* What the root pass leaves in _childrenDisposables: the single-folder branch
\* returns without the assignment of line 178.
TrackAfter(p, result) == IF p.single THEN childrenDisposables ELSE result

\* this._childrenDisposables.forEach(dispose => dispose.dispose())
DisposeAll(tracked, counts) ==
    [n \in DOMAIN counts |-> IF n \in Range(tracked) THEN counts[n] + 1 ELSE counts[n]]

\* Nodes the provider handed to the host, which the host may ask the children
\* of: the roots the most recent root pass returned (folder nodes, or the
\* category nodes of a single folder).
Elements == {n \in DOMAIN disposeCount : n.gen = lastDone}

\* A settled getChildren call: its element, the host values it read (None when
\* the branch taken reads none), how it settled, its result, and for a root pass
\* past the gates the identity of the pass.
NoCall == [op |-> "none"]
Call(element, ws, rs, outcome, value, pass) ==
    [op |-> "getChildren", element |-> element, workspaceFolders |-> ws,
     remotesSetting |-> rs, outcome |-> outcome, value |-> value, pass |-> pass]

----------------------------------------------------------------------------
FolderManager == [githubRemotes : RemoteCounts, remotes : RemoteCounts]

\* The managers initialize() can be called with.
Managers == {"manager", "other"}
ManagerArg(m) == [kind |-> "PullRequestManager", name |-> m]
FolderManagerArg(i) == [kind |-> "FolderPullRequestManager", fm |-> i]

\* An operation other than getChildren: its argument, how it ended, and the
\* payloads it passed to this._onDidChangeTreeData.fire, in order (NoNode for
\* the whole-tree fire()).
Event(op, arg, outcome, fired) ==
    [op |-> op, arg |-> arg, outcome |-> outcome, fired |-> fired]

\* One fire() per registered listener.
FireTree(listeners) == [k \in 1..listeners |-> NoNode]

Init ==
    /\ prManager = None
    /\ initialized = FALSE
    /\ state \in PRManagerState
    /\ \E n \in 0..MaxFolders : folderManagers \in [1..n -> FolderManager]
    /\ isVSOCache = None
    /\ childrenDisposables = <<>>
    /\ disposeCount = <<>>
    /\ passes = {}
    /\ nextPass = 1
    /\ overlapped = FALSE
    /\ lastDone = 0
    /\ ret = NoCall
    /\ initPending = FALSE
    /\ subscriptions = [state |-> 0, repositories |-> [i \in DOMAIN folderManagers |-> 0]]
    /\ probes = 0
    /\ fetchNextPage = {}

\* The registrations of initialize without the listeners on the folder managers.
Subscribe_StateOnly(subs) ==
    [state |-> subs.state + 1, repositories |-> subs.repositories]

\* The registrations of initialize (lines 90-97): one listener on the manager's
\* state, one on each folder manager's repositories.
Subscribe(subs) ==
    [state |-> subs.state + 1,
     repositories |-> [i \in DOMAIN subs.repositories |-> subs.repositories[i] + 1]]

\* initialize(prManager), first call, up to `await this.initializeCategories()`
\* (lines 83-98).
Initialize ==
    /\ ~initialized
    /\ initialized' = TRUE
    /\ prManager' = Some("manager")
    /\ subscriptions' = Subscribe(subscriptions)
    /\ initPending' = TRUE
    /\ ret' = NoCall
    /\ UNCHANGED <<state, folderManagers, isVSOCache, childrenDisposables,
                   disposeCount, passes, nextPass, overlapped, lastDone,
                   probes, fetchNextPage>>

\* The continuation of initialize: this.refresh() fires the whole tree (line 99).
InitializeFinish ==
    /\ initPending
    /\ initPending' = FALSE
    /\ ret' = Event("initialize", ManagerArg(prManager[1]), "resolved", <<NoNode>>)
    /\ UNCHANGED <<prManager, initialized, state, folderManagers, isVSOCache,
                   childrenDisposables, disposeCount, passes, nextPass, overlapped, lastDone,
                   subscriptions, probes, fetchNextPage>>

\* initialize(prManager) without the test of this._initialized.
InitializeAgain_Unguarded(m) ==
    /\ initialized
    /\ prManager' = Some(m)
    /\ subscriptions' = Subscribe(subscriptions)
    /\ initPending' = TRUE
    /\ ret' = NoCall
    /\ UNCHANGED <<initialized, state, folderManagers, isVSOCache, childrenDisposables,
                   disposeCount, passes, nextPass, overlapped, lastDone,
                   probes, fetchNextPage>>

\* initialize(prManager) once this._initialized is set, the first call finished
\* or not (lines 84-86): it throws.
InitializeAgain(m) ==
    /\ initialized
    /\ ret' = Event("initialize", ManagerArg(m), "rejected", <<>>)
    /\ UNCHANGED <<prManager, initialized, state, folderManagers, isVSOCache,
                   childrenDisposables, disposeCount, passes, nextPass, overlapped, lastDone,
                   lifecycleVars, probes, fetchNextPage>>

\* The manager's state changes (onDidChangeState): every listener fires.
ChangeState(s) ==
    /\ s # state
    /\ state' = s
    /\ ret' = Event("onDidChangeState", NoNode, "resolved", FireTree(subscriptions.state))
    /\ UNCHANGED <<prManager, initialized, folderManagers, isVSOCache,
                   childrenDisposables, disposeCount, passes, nextPass, overlapped, lastDone,
                   lifecycleVars, probes, fetchNextPage>>

\* A folder manager's repositories change (onDidChangeRepositories).
ChangeRepositories(i, fm) ==
    /\ i \in DOMAIN folderManagers
    /\ fm # folderManagers[i]
    /\ fm.githubRemotes = folderManagers[i].githubRemotes \/ fm.remotes = folderManagers[i].remotes
    /\ folderManagers' = [folderManagers EXCEPT ![i] = fm]
    /\ ret' = Event("onDidChangeRepositories", FolderManagerArg(i), "resolved",
                    FireTree(subscriptions.repositories[i]))
    /\ UNCHANGED <<prManager, initialized, state, isVSOCache,
                   childrenDisposables, disposeCount, passes, nextPass, overlapped, lastDone,
                   lifecycleVars, probes, fetchNextPage>>

\* The command pr.refreshList (lines 38-40).
RefreshList ==
    /\ ret' = Event("pr.refreshList", NoNode, "resolved", <<NoNode>>)
    /\ UNCHANGED <<prManager, initialized, state, folderManagers, isVSOCache,
                   childrenDisposables, disposeCount, passes, nextPass, overlapped, lastDone,
                   lifecycleVars, probes, fetchNextPage>>

\* refresh(node?) (lines 124-126).
Refresh(node) ==
    /\ ret' = Event("refresh", node, "resolved", <<node>>)
    /\ UNCHANGED <<prManager, initialized, state, folderManagers, isVSOCache,
                   childrenDisposables, disposeCount, passes, nextPass, overlapped, lastDone,
                   lifecycleVars, probes, fetchNextPage>>

\* A notification as its listeners see it: the payload and, for a category
\* node, the value of its fetchNextPage flag at the time of the fire.
Fired(node, flags) == [payload |-> node, fetchNextPage |-> node \in flags]

\* The handler of pr.loadMore with its two statements in the other order.
LoadMoreHandler_FireFirst(node, flags) ==
    LET fired == <<Fired(node, flags)>>
        after == flags \cup {node}
    IN [flags |-> after, fired |-> fired]

\* The handler of pr.loadMore (lines 42-45): the flags after it, and what it fired.
LoadMoreHandler(node, flags) ==
    LET after == flags \cup {node}
        fired == <<Fired(node, after)>>
    IN [flags |-> after, fired |-> fired]

\* The command pr.loadMore on a category node.
LoadMore(node) ==
    /\ node.kind = "CategoryTreeNode"
    /\ fetchNextPage' = LoadMoreHandler(node, fetchNextPage).flags
    /\ ret' = Event("pr.loadMore", node, "resolved", LoadMoreHandler(node, fetchNextPage).fired)
    /\ UNCHANGED <<prManager, initialized, state, folderManagers, isVSOCache,
                   childrenDisposables, disposeCount, passes, nextPass, overlapped, lastDone,
                   lifecycleVars, probes>>

\* getChildren(element) with no manager attached (lines 149-155).
GetChildrenNoManager(element, ws) ==
    /\ Gate = "noManager"
    /\ ret' = Call(element, ws, None, "resolved", GateResult(ws, None), 0)
    /\ UNCHANGED <<prManager, initialized, state, folderManagers, isVSOCache,
                   childrenDisposables, disposeCount, passes, nextPass, overlapped, lastDone,
                   lifecycleVars, probes, fetchNextPage>>

\* getChildren(element) while the manager is Initializing (lines 157-159).
GetChildrenInitializing(element) ==
    /\ Gate = "initializing"
    /\ ret' = Call(element, None, None, "resolved", GateResult(None, None), 0)
    /\ UNCHANGED <<prManager, initialized, state, folderManagers, isVSOCache,
                   childrenDisposables, disposeCount, passes, nextPass, overlapped, lastDone,
                   lifecycleVars, probes, fetchNextPage>>

\* getChildren(element) when no folder manager has a GitHub remote (lines 161-163).
GetChildrenNeedsRemotes(element, rs) ==
    /\ Gate = "needsRemotes"
    /\ ret' = Call(element, None, rs, "resolved", GateResult(None, rs), 0)
    /\ UNCHANGED <<prManager, initialized, state, folderManagers, isVSOCache,
                   childrenDisposables, disposeCount, passes, nextPass, overlapped, lastDone,
                   lifecycleVars, probes, fetchNextPage>>

\* The flags after element.getChildren() ran: a category node consumes its own
\* fetchNextPage flag when it loads its children.
ConsumeFetchNextPage(element, flags) == flags \ {element}

\* getChildren(element) for a defined element past the gates with the root
\* branch taken for it too.
GetChildrenElement_Releasing(element) ==
    /\ Gate = "none"
    /\ element # NoNode
    /\ disposeCount' = DisposeAll(childrenDisposables, disposeCount)
    /\ childrenDisposables' = <<>>
    /\ ret' = Call(element, None, None, "resolved", ElementResult(element), 0)
    /\ UNCHANGED <<prManager, initialized, state, folderManagers, isVSOCache,
                   passes, nextPass, overlapped, lastDone,
                   lifecycleVars, probes, fetchNextPage>>

\* getChildren(element) for a defined element past the gates (lines 182-186).
GetChildrenElement(element) ==
    /\ Gate = "none"
    /\ element # NoNode
    /\ ret' = Call(element, None, None, "resolved", ElementResult(element), 0)
    /\ fetchNextPage' = IF HasRepositoryRemotes
                        THEN ConsumeFetchNextPage(element, fetchNextPage)
                        ELSE fetchNextPage
    /\ UNCHANGED <<prManager, initialized, state, folderManagers, isVSOCache,
                   childrenDisposables, disposeCount, passes, nextPass, overlapped, lastDone,
                   lifecycleVars, probes>>

\* The root pass with isVSO() never reading its cache.
GetChildrenRootStart_NoCache ==
    /\ Gate = "none"
    /\ nextPass <= MaxPasses
    /\ disposeCount' = DisposeAll(childrenDisposables, disposeCount)
    /\ passes' = passes \cup {[id |-> nextPass,
                               single |-> (Len(folderManagers) = 1),
                               isVSO |-> None]}
    /\ probes' = probes + 1
    /\ nextPass' = nextPass + 1
    /\ overlapped' = (overlapped \/ passes # {})
    /\ ret' = NoCall
    /\ UNCHANGED <<prManager, initialized, state, folderManagers, isVSOCache,
                   childrenDisposables, lastDone, lifecycleVars, fetchNextPage>>

\* getChildren(undefined) past the gates, up to `await this.isVSO()`
\* (lines 165-174): the tracked nodes are disposed, and isVSO() either finds the
\* cache and returns it (lines 103-105) or starts the probe (line 107). The pass
\* records the value of isVSO() once it has one.
GetChildrenRootStart ==
    /\ Gate = "none"
    /\ nextPass <= MaxPasses
    /\ disposeCount' = DisposeAll(childrenDisposables, disposeCount)
    /\ passes' = passes \cup {[id |-> nextPass,
                               single |-> (Len(folderManagers) = 1),
                               isVSO |-> isVSOCache]}
    /\ probes' = IF isVSOCache = None THEN probes + 1 ELSE probes
    /\ nextPass' = nextPass + 1
    /\ overlapped' = (overlapped \/ passes # {})
    /\ ret' = NoCall
    /\ UNCHANGED <<prManager, initialized, state, folderManagers, isVSOCache,
                   childrenDisposables, lastDone, lifecycleVars, fetchNextPage>>

\* The continuation of isVSO() after its probe resolved to a URI of the given
\* authority (lines 107-113): the authority is classified and the cache
\* written, whatever it holds; the root pass that awaits isVSO() is still
\* suspended.
IsVSOResolve(p, authority) ==
    /\ p \in passes
    /\ p.isVSO = None
    /\ isVSOCache' = Some(AuthorityIsVSO(authority))
    /\ passes' = (passes \ {p}) \cup {[p EXCEPT !.isVSO = Some(AuthorityIsVSO(authority))]}
    /\ ret' = NoCall
    /\ UNCHANGED <<prManager, initialized, state, folderManagers,
                   childrenDisposables, disposeCount, nextPass, overlapped, lastDone,
                   lifecycleVars, probes, fetchNextPage>>

\* The continuation of a root pass once isVSO() has its value (lines 172-179).
GetChildrenRootResume(p) ==
    /\ p \in passes
    /\ p.isVSO # None
    /\ LET result == RootResult(p, p.isVSO[1])
           fresh == Range(result)
       IN /\ childrenDisposables' = TrackAfter(p, result)
          /\ disposeCount' = [n \in DOMAIN disposeCount \cup fresh |->
                                 IF n \in fresh THEN 0 ELSE disposeCount[n]]
          /\ lastDone' = p.id
          /\ ret' = Call(NoNode, None, None, "resolved", result, p.id)
    /\ passes' = passes \ {p}
    /\ UNCHANGED <<prManager, initialized, state, folderManagers, isVSOCache,
                   nextPass, overlapped, lifecycleVars, probes, fetchNextPage>>

\* The rejection of the probe cached as a negative classification.
GetChildrenRootReject_Poisoned(p) ==
    /\ p \in passes
    /\ p.isVSO = None
    /\ passes' = passes \ {p}
    /\ isVSOCache' = Some(FALSE)
    /\ ret' = Call(NoNode, None, None, "rejected", <<>>, p.id)
    /\ UNCHANGED <<prManager, initialized, state, folderManagers,
                   childrenDisposables, disposeCount, nextPass, overlapped, lastDone,
                   lifecycleVars, probes, fetchNextPage>>

\* The probe vscode.env.asExternalUri rejects: isVSO() and the root pass that
\* awaits it reject, nothing is cached or installed.
GetChildrenRootReject(p) ==
    /\ p \in passes
    /\ p.isVSO = None
    /\ passes' = passes \ {p}
    /\ ret' = Call(NoNode, None, None, "rejected", <<>>, p.id)
    /\ UNCHANGED <<prManager, initialized, state, folderManagers, isVSOCache,
                   childrenDisposables, disposeCount, nextPass, overlapped, lastDone,
                   lifecycleVars, probes, fetchNextPage>>

\* dispose() (lines 193-195): the provider's own registrations are disposed,
\* its listeners on the manager and the folder managers among them. Nothing
\* else is touched: a suspended call resumes as it would have.
Dispose ==
    /\ subscriptions' = [state |-> 0, repositories |-> [i \in DOMAIN folderManagers |-> 0]]
    /\ ret' = Event("dispose", NoNode, "resolved", <<>>)
    /\ UNCHANGED <<prManager, initialized, state, folderManagers, isVSOCache,
                   childrenDisposables, disposeCount, passes, nextPass, overlapped, lastDone,
                   initPending, probes, fetchNextPage>>

\* Continuations run in the order they were queued. The continuation of
\* initialize is queued by its await on a promise that is already settled
\* (line 98), so it runs before the continuation of any call made after
\* initialize was called; the calls themselves can be made before it runs.
ContinuationsRun == ~initPending

\* The resolution of the tree: the calls of getChildren the host makes on the
\* root and on the roots it holds, in every state of the manager, with passes
\* that overlap.
Next ==
    \/ Initialize
    \/ InitializeFinish
    \/ \E s \in PRManagerState : ChangeState(s)
    \/ \E i \in 1..MaxFolders, fm \in FolderManager : ChangeRepositories(i, fm)
    \/ \E e \in Elements \cup {NoNode}, ws \in WorkspaceFoldersValues : GetChildrenNoManager(e, ws)
    \/ \E e \in Elements \cup {NoNode} : GetChildrenInitializing(e)
    \/ \E e \in Elements \cup {NoNode}, rs \in RemotesSettingValues : GetChildrenNeedsRemotes(e, rs)
    \/ \E e \in Elements : GetChildrenElement(e)
    \/ GetChildrenRootStart
    \/ ContinuationsRun /\ \E p \in passes, a \in Authorities : IsVSOResolve(p, a)
    \/ ContinuationsRun /\ \E p \in passes : GetChildrenRootResume(p)

Spec == Init /\ [][Next]_vars

\* Root resolution alone: the host asks for the root only, getChildren(undefined),
\* while the manager's state and the repositories change.
NextRoot ==
    \/ Initialize
    \/ InitializeFinish
    \/ \E s \in PRManagerState : ChangeState(s)
    \/ \E i \in 1..MaxFolders, fm \in FolderManager : ChangeRepositories(i, fm)
    \/ \E ws \in WorkspaceFoldersValues : GetChildrenNoManager(NoNode, ws)
    \/ GetChildrenInitializing(NoNode)
    \/ \E rs \in RemotesSettingValues : GetChildrenNeedsRemotes(NoNode, rs)
    \/ GetChildrenRootStart
    \/ ContinuationsRun /\ \E p \in passes, a \in Authorities : IsVSOResolve(p, a)
    \/ ContinuationsRun /\ \E p \in passes : GetChildrenRootResume(p)

SpecRoot == Init /\ [][NextRoot]_vars

\* A workspace of one folder or of two: the roots are category nodes or
\* folder nodes.
InitElements == Init /\ Len(folderManagers) \in {1, 2}

\* The nodes of the tree expanded: getChildren on the roots of the last root
\* pass, while the manager's state and the repositories change.
NextElements ==
    \/ Initialize
    \/ InitializeFinish
    \/ \E s \in PRManagerState : ChangeState(s)
    \/ \E i \in 1..MaxFolders, fm \in FolderManager : ChangeRepositories(i, fm)
    \/ \E e \in Elements : GetChildrenInitializing(e)
    \/ \E e \in Elements, rs \in RemotesSettingValues : GetChildrenNeedsRemotes(e, rs)
    \/ \E e \in Elements : GetChildrenElement(e)
    \/ GetChildrenRootStart
    \/ ContinuationsRun /\ \E p \in passes, a \in Authorities : IsVSOResolve(p, a)
    \/ ContinuationsRun /\ \E p \in passes : GetChildrenRootResume(p)

SpecElements == InitElements /\ [][NextElements]_vars

\* The root passes and the probe in a workspace that does not change, with
\* probes that reject and with dispose() called at any time.
NextPasses ==
    \/ Initialize
    \/ InitializeFinish
    \/ GetChildrenRootStart
    \/ ContinuationsRun /\ \E p \in passes, a \in Authorities : IsVSOResolve(p, a)
    \/ ContinuationsRun /\ \E p \in passes : GetChildrenRootResume(p)
    \/ ContinuationsRun /\ \E p \in passes : GetChildrenRootReject(p)
    \/ Dispose

SpecPasses == Init /\ [][NextPasses]_vars

\* The calls of initialize and the events of the manager and its folder managers.
NextInitialize ==
    \/ Initialize
    \/ InitializeFinish
    \/ \E m \in Managers : InitializeAgain(m)
    \/ \E s \in PRManagerState : ChangeState(s)
    \/ \E i \in 1..MaxFolders, fm \in FolderManager : ChangeRepositories(i, fm)

SpecInitialize == Init /\ [][NextInitialize]_vars

\* The view in use in a workspace that does not change: the commands, the
\* notifications, and the calls of getChildren that show real nodes.
NextView ==
    \/ Initialize
    \/ InitializeFinish
    \/ RefreshList
    \/ \E e \in Elements \cup {NoNode} : Refresh(e)
    \/ \E e \in Elements : LoadMore(e)
    \/ \E e \in Elements : GetChildrenElement(e)
    \/ GetChildrenRootStart
    \/ ContinuationsRun /\ \E p \in passes, a \in Authorities : IsVSOResolve(p, a)
    \/ ContinuationsRun /\ \E p \in passes : GetChildrenRootResume(p)

SpecView == Init /\ [][NextView]_vars

\* The nodes the view shows once the folders are expanded: the roots of the
\* last pass and the category nodes under its WorkspaceFolderNodes.
ViewElements ==
    Elements \cup UNION {Range(NodeGetChildren(n)) : n \in {e \in Elements : e.kind = "WorkspaceFolderNode"}}

\* A workspace of two folders.
InitFolders == Init /\ Len(folderManagers) = 2

\* The two-folder workspace browsed: the root passes, and getChildren on the
\* folder nodes and on the category nodes under them.
NextFolders ==
    \/ Initialize
    \/ InitializeFinish
    \/ \E i \in 1..MaxFolders, fm \in FolderManager : ChangeRepositories(i, fm)
    \/ \E e \in ViewElements : GetChildrenElement(e)
    \/ GetChildrenRootStart
    \/ ContinuationsRun /\ \E p \in passes, a \in Authorities : IsVSOResolve(p, a)
    \/ ContinuationsRun /\ \E p \in passes : GetChildrenRootResume(p)

SpecFolders == InitFolders /\ [][NextFolders]_vars

----------------
\* Properties.

SettledCall == ret.op = "getChildren" /\ ret.outcome = "resolved"
\* A call that returned at a gate or in the element branch: it read the state as it is now.
SyncCall == SettledCall /\ ret.pass = 0
RootCall == SettledCall /\ ret.element = NoNode
\* A root pass past the gates that resumed and returned its roots.
RootPassReturn == RootCall /\ ret.pass # 0
\* No root pass gets past the gates in this step.
NoPassStarts == nextPass' = nextPass
PassNodes(g) == {n \in DOMAIN disposeCount : n.gen = g}

\* C1: installing generation G2 after G1 disposes every node of G1 exactly once
\* over the whole run, and disposes no node of G2 while G2 is installed. Stated
\* for root passes that run one after the other: every top-level node of a
\* generation other than the one returned last has had dispose() called exactly
\* once, and the nodes a pass returns are undisposed when it returns.
C1_DisposedExactlyOnce ==
    /\ ~overlapped => \A n \in DOMAIN disposeCount : n.gen # lastDone => disposeCount[n] = 1
    /\ RootPassReturn => \A n \in PassNodes(ret.pass) : disposeCount[n] = 0

\* C2: when root passes interleave at the await of isVSO(), once all passes have
\* completed the undisposed top-level nodes are exactly those of the generation
\* installed last. Stated for several folder managers, where passes that run one
\* after the other do leave exactly the last generation alive.
C2_InterleavedConverges ==
    (overlapped /\ passes = {} /\ lastDone # 0 /\ Len(folderManagers) > 1)
        => {n \in DOMAIN disposeCount : disposeCount[n] = 0} = PassNodes(lastDone)

\* C3: when a root-level getChildren(undefined) returns, whatever it resolves to,
\* every top-level node of an earlier generation has been disposed. Stated for
\* several folder managers and root passes that run one after the other, where
\* every generation returned is tracked.
C3_RootPassReleasesPrevious ==
    (RootCall /\ ~overlapped /\ Len(folderManagers) > 1)
        => \A n \in DOMAIN disposeCount : n.gen # ret.pass => disposeCount[n] >= 1

\* C4 as stated: with no manager attached getChildren returns exactly
\* [NoOpenFolder] when no workspace folder is open, whether no workspace is
\* opened or the opened workspace holds no folder, and exactly
\* [NoGitRepositories] otherwise.
C4_NoFolderOpen ==
    (SettledCall /\ prManager = None) =>
        ret.value = IF ret.workspaceFolders \in {None, Some(0)}
                    THEN <<PRCategoryActionNode("NoOpenFolder")>>
                    ELSE <<PRCategoryActionNode("NoGitRepositories")>>

\* C4, amended: with no manager attached getChildren returns exactly
\* [NoOpenFolder] when workspace.workspaceFolders is undefined and exactly
\* [NoGitRepositories] otherwise, an opened workspace that holds no folder
\* included, and no root pass goes further.
C4_NoManagerPlaceholder ==
    /\ [](SettledCall /\ prManager = None =>
            ret.value = IF ret.workspaceFolders = None
                        THEN <<PRCategoryActionNode("NoOpenFolder")>>
                        ELSE <<PRCategoryActionNode("NoGitRepositories")>>)
    /\ [][prManager = None /\ prManager' = None => NoPassStarts]_vars

\* A call with no manager attached made in an opened workspace that holds no folder.
C4_Witness == SettledCall /\ prManager = None /\ ret.workspaceFolders = Some(0)

\* C5: with a manager attached and in state Initializing, root resolution yields
\* exactly [Initializing] whatever the remotes, the allow-list and the number of
\* folder managers are, and starts no root pass.
C5_InitializingPlaceholder ==
    /\ [](RootCall /\ ret.pass = 0 /\ prManager # None /\ state = "Initializing" =>
            ret.value = <<PRCategoryActionNode("Initializing")>>)
    /\ [][prManager # None /\ state = "Initializing" /\ state' = "Initializing" => NoPassStarts]_vars

C5_Witness ==
    /\ RootCall /\ ret.pass = 0 /\ prManager # None /\ state = "Initializing"
    /\ ~HasGitHubRemotes /\ Len(folderManagers) > 1

\* C6: in state NeedsAuthentication with no folder manager reporting a GitHub
\* remote, root resolution yields the empty list whether or not the remotes
\* allow-list is configured.
C6_NeedsAuthenticationEmpty ==
    /\ [](RootCall /\ ret.pass = 0 /\ prManager # None /\ state = "NeedsAuthentication"
             /\ ~HasGitHubRemotes => ret.value = <<>>)
    /\ [][prManager # None /\ ~HasGitHubRemotes /\ ~HasGitHubRemotes' => NoPassStarts]_vars

C6_Witness ==
    /\ RootCall /\ ret.pass = 0 /\ prManager # None /\ state = "NeedsAuthentication"
    /\ ~HasGitHubRemotes /\ ret.remotesSetting # None

\* C7: with a manager attached whose state is neither Initializing nor
\* NeedsAuthentication and no folder manager reporting a GitHub remote, root
\* resolution yields exactly [NoMatchingRemotes, ConfigureRemotes] when the
\* remotes allow-list is configured and exactly [NoRemotes] when it is not.
C7_RemotePrompts ==
    (RootCall /\ ret.pass = 0 /\ prManager # None /\ ~HasGitHubRemotes
        /\ state \notin {"Initializing", "NeedsAuthentication"})
    => ret.value = IF ret.remotesSetting # None
                   THEN <<PRCategoryActionNode("NoMatchingRemotes"),
                          PRCategoryActionNode("ConfigureRemotes")>>
                   ELSE <<PRCategoryActionNode("NoRemotes")>>

C7_Witness ==
    /\ RootCall /\ ret.pass = 0 /\ prManager # None /\ ~HasGitHubRemotes
    /\ state = "RepositoriesLoaded" /\ ret.remotesSetting # None

\* C8: a root pass that reaches the real-subtree branches returns, with one
\* folder manager, that folder's category nodes and no WorkspaceFolderNode, and
\* with N > 1 folder managers exactly N WorkspaceFolderNodes, the i-th built
\* from the i-th folder manager.
C8_FlatOrWrapped ==
    RootPassReturn =>
        /\ Len(folderManagers) >= 1
        /\ Len(folderManagers) = 1 =>
              /\ Len(ret.value) = Len(Categories)
              /\ \A k \in DOMAIN ret.value :
                    /\ ret.value[k].kind = "CategoryTreeNode"
                    /\ ret.value[k].fm = 1
                    /\ ret.value[k].idx = Categories[k]
        /\ Len(folderManagers) > 1 =>
              /\ Len(ret.value) = Len(folderManagers)
              /\ \A i \in DOMAIN ret.value :
                    /\ ret.value[i].kind = "WorkspaceFolderNode"
                    /\ ret.value[i].fm = i

C8_Witness == RootPassReturn /\ Len(folderManagers) > 1

\* C9: a root pass past the gates returns exactly [Empty] when no folder
\* manager's repository reports a remote.
C9_RootEmptyOverride ==
    (RootPassReturn /\ ~HasRepositoryRemotes) => ret.value = <<PRCategoryActionNode("Empty")>>

\* C10 as stated: for a defined node getChildren returns the node's own children
\* when some repository reports a remote and [Empty] otherwise, in every
\* provider state.
C10_OnlyTwoResults ==
    (SettledCall /\ ret.element # NoNode) =>
        ret.value = IF HasRepositoryRemotes
                    THEN NodeGetChildren(ret.element)
                    ELSE <<PRCategoryActionNode("Empty")>>

\* C10 amended: for a defined node, when a manager is attached, its state is not
\* Initializing and some folder manager reports a GitHub remote, getChildren
\* returns the node's own children when some repository reports a remote and
\* [Empty] otherwise; in the other provider states it returns the placeholder
\* list of the gate that applies and never the node's own children.
C10_ElementPastGates ==
    (SettledCall /\ ret.element # NoNode) =>
        IF prManager # None /\ state # "Initializing" /\ HasGitHubRemotes
        THEN ret.value = IF HasRepositoryRemotes
                         THEN NodeGetChildren(ret.element)
                         ELSE <<PRCategoryActionNode("Empty")>>
        ELSE /\ ret.value # NodeGetChildren(ret.element)
             /\ \A k \in DOMAIN ret.value :
                   /\ ret.value[k].kind = "PRCategoryActionNode"
                   /\ ret.value[k].type \in {"NoOpenFolder", "NoGitRepositories", "Initializing",
                                             "NoMatchingRemotes", "ConfigureRemotes", "NoRemotes"}

C10_Witness ==
    /\ SettledCall /\ ret.element # NoNode
    /\ prManager # None /\ state # "Initializing" /\ HasGitHubRemotes
    /\ ~HasRepositoryRemotes

\* C11: a call of initialize made once the provider is initialized, the first
\* call finished or still in flight, fails and changes nothing: from then on no
\* step replaces the manager or registers a listener, and such a call is
\* rejected and fires no notification.
C11_SecondInitializeFails ==
    /\ [][initialized => /\ initialized'
                         /\ prManager' = prManager
                         /\ subscriptions' = subscriptions]_vars
    /\ [][(initialized /\ ret'.op = "initialize" /\ initPending' = initPending)
             => ret'.outcome = "rejected" /\ ret'.fired = <<>>]_vars

\* A second call, with another manager, was rejected while the first is in flight.
C11_Witness ==
    /\ ret.op = "initialize" /\ ret.outcome = "rejected" /\ ret.arg = ManagerArg("other")
    /\ initPending

\* C12: initialize attaches the manager and registers one listener on the
\* manager's state and one on each folder manager's repositories, and fires the
\* whole tree once when it finishes; every state change and every repositories
\* change after initialize fires the whole tree exactly once, and none before.
C12_OneNotificationPerEvent ==
    /\ subscriptions = [state |-> IF initialized THEN 1 ELSE 0,
                        repositories |-> [i \in DOMAIN folderManagers |-> IF initialized THEN 1 ELSE 0]]
    /\ initialized => prManager = Some("manager")
    /\ ret.op \in {"onDidChangeState", "onDidChangeRepositories"}
          => ret.fired = IF initialized THEN <<NoNode>> ELSE <<>>
    /\ (ret.op = "initialize" /\ ret.outcome = "resolved") => ret.fired = <<NoNode>>

\* After initialize, the repositories of the last folder manager changed.
C12_Witness ==
    /\ initialized /\ ~initPending
    /\ ret.op = "onDidChangeRepositories" /\ ret.arg = FolderManagerArg(MaxFolders)
    /\ ret.fired = <<NoNode>>

\* No node is disposed, installed or returned as a root, and no root pass starts.
TrackedUnchanged ==
    /\ childrenDisposables' = childrenDisposables
    /\ disposeCount' = disposeCount
    /\ nextPass' = nextPass
    /\ lastDone' = lastDone

\* C13: a step that fires a node (pr.loadMore, refresh(node)) starts no root
\* pass and leaves the tracked nodes alone, and so does getChildren(node); the
\* tracked nodes are disposed or replaced only by getChildren(undefined).
C13_NodeScopedLeavesTracked ==
    /\ [][(ret'.op \in {"refresh", "pr.loadMore"} /\ ret'.arg # NoNode) => TrackedUnchanged]_vars
    /\ [][(ret'.op = "getChildren" /\ ret'.element # NoNode) => TrackedUnchanged]_vars
    /\ [][~TrackedUnchanged => \/ ret' = NoCall /\ nextPass' = nextPass + 1
                               \/ ret'.op = "getChildren" /\ ret'.element = NoNode]_vars

\* getChildren of a WorkspaceFolderNode returned while the nodes of its
\* generation are tracked and undisposed.
C13_Witness ==
    /\ SettledCall /\ ret.element # NoNode /\ ret.element.kind = "WorkspaceFolderNode"
    /\ childrenDisposables # <<>>
    /\ \A i \in DOMAIN childrenDisposables : disposeCount[childrenDisposables[i]] = 0

\* Root passes whose probe rejected: the passes that ended without returning nodes.
Rejected ==
    (nextPass - 1) - Cardinality(passes) - Cardinality({n.gen : n \in DOMAIN disposeCount})

\* C14: isVSO() called one call after the other gives every call the same
\* boolean, and once a call has succeeded no later call probes: among
\* sequential calls every probe but one is a probe that rejected.
C14_SequentialProbesOnce ==
    /\ [](~overlapped => \A n, m \in DOMAIN disposeCount : n.isVso = m.isVso)
    /\ []((~overlapped /\ isVSOCache # None) => \A n \in DOMAIN disposeCount : n.isVso = isVSOCache[1])
    /\ [](~overlapped => probes <= Rejected + 1)
    /\ [][isVSOCache # None => probes' = probes]_vars

\* Two root passes ran one after the other, no probe rejected.
C14_Witness ==
    /\ ~overlapped /\ passes = {} /\ Rejected = 0
    /\ Cardinality({n.gen : n \in DOMAIN disposeCount}) = 2
    /\ probes = 1

\* C15: when the probe rejects, the root pass that awaits it rejects, the cache
\* is left as it was (absent, when calls are sequential), and a call that
\* finds the cache absent probes again.
C15_ProbeFailurePropagates ==
    /\ []((ret.op = "getChildren" /\ ret.outcome = "rejected" /\ ~overlapped) => isVSOCache = None)
    /\ [][(ret'.op = "getChildren" /\ ret'.outcome = "rejected")
             => isVSOCache' = isVSOCache /\ childrenDisposables' = childrenDisposables]_vars
    /\ [][(isVSOCache = None /\ nextPass' # nextPass) => probes' = probes + 1]_vars

\* The first probe rejected, and the next root pass probed again and returned.
C15_Witness ==
    /\ ~overlapped /\ Rejected = 1 /\ probes = 2
    /\ RootPassReturn

\* C16: when dispose() returns every node of the tracked generation has been
\* disposed. Stated for folder nodes installed by passes that ran one after
\* the other.
C16_DisposeReleasesTracked ==
    (ret.op = "dispose" /\ ~overlapped)
        => \A i \in DOMAIN childrenDisposables : disposeCount[childrenDisposables[i]] >= 1

\* C17: with two folder managers in RepositoriesLoaded, the first with a GitHub
\* remote and a repository remote and the second with no remote, the root pass
\* returns two WorkspaceFolderNodes, and getChildren of a node of the second
\* folder returns that node's own children.
C17_RemotelessFolder ==
    (/\ state = "RepositoriesLoaded"
     /\ Len(folderManagers) = 2
     /\ folderManagers[1] = [githubRemotes |-> 1, remotes |-> 1]
     /\ folderManagers[2] = [githubRemotes |-> 0, remotes |-> 0]
     /\ SettledCall)
        => /\ ret.element = NoNode
                => /\ Len(ret.value) = 2
                   /\ \A i \in 1..2 : ret.value[i].kind = "WorkspaceFolderNode" /\ ret.value[i].fm = i
           /\ (ret.element # NoNode /\ ret.element.fm = 2)
                => ret.value = NodeGetChildren(ret.element) /\ ret.value # EmptyResult

\* getChildren of a category node of the second, remote-less folder returned its
\* pull requests.
C17_Witness ==
    /\ state = "RepositoriesLoaded"
    /\ Len(folderManagers) = 2
    /\ folderManagers[1] = [githubRemotes |-> 1, remotes |-> 1]
    /\ folderManagers[2] = [githubRemotes |-> 0, remotes |-> 0]
    /\ SettledCall /\ ret.element # NoNode
    /\ ret.element.kind = "CategoryTreeNode" /\ ret.element.fm = 2
    /\ ret.value = <<PRNode(ret.element)>>

\* C18: when a root pass returns real roots, the tracked nodes are the nodes it
\* returned. Stated for passes that ran one after the other.
C18_TrackedIsReturned ==
    (RootPassReturn /\ ~overlapped) => childrenDisposables = ret.value

\* C19: once the cache holds a value no step changes it, the completion of a
\* probe that a concurrent call started before the first result landed included.
C19_CacheWriteOnce ==
    [][isVSOCache # None => isVSOCache' = isVSOCache]_vars

\* C20: pr.loadMore on a category node sets that node's fetchNextPage before it
\* fires, fires once with the node as payload, and changes no other node's
\* flag; the flag stays set until getChildren of that node runs.
C20_LoadMoreSetsThenFires ==
    /\ [][ret'.op = "pr.loadMore"
             => /\ ret'.arg \in fetchNextPage'
                /\ ret'.fired = <<[payload |-> ret'.arg, fetchNextPage |-> TRUE]>>
                /\ fetchNextPage' \ {ret'.arg} = fetchNextPage \ {ret'.arg}]_vars
    /\ [][\A n \in fetchNextPage :
             n \notin fetchNextPage' => ret'.op = "getChildren" /\ ret'.element = n]_vars

\* pr.loadMore ran on a node while the flag of another node is set.
C20_Witness ==
    /\ ret.op = "pr.loadMore"
    /\ \E n \in fetchNextPage : n # ret.arg

====
